---- MODULE Spec2Model ----
(***************************************************************************)
(* The Issuer of the node-locked licensing service (src/server/server.py,  *)
(* src/server/db.py, src/server/certificate.py) as a state machine.        *)
(*                                                                         *)
(* The store is the two sqlite tables `customers` and `machines`.  Columns *)
(* that no handler ever reads back in a decision (hostname, os_info,       *)
(* ip_address, created_at, last_seen, the activity log) are left out.      *)
(* Time is counted in ticks, TicksPerDay ticks to a day.                   *)
(*                                                                         *)
(* The Enforcer (src/set/container_validator.py) runs on one host, whose   *)
(* hardware, license directory and validator process are the variable      *)
(* `host`.                                                                 *)
(***************************************************************************)
EXTENDS Integers, FiniteSets, Sequences, TLC

\* ------------------------------------------------------------------ bounds
MaxTime == 17
MaxInvocations == 2
TicksPerDay == 2

\* ------------------------------------------------------- program constants
GraceDays == 7
GRACE_PERIOD_DAYS == 7
TrialMaxMachines == 1
TrialValidDays == 14
BasicMaxMachines == 3
ProMaxMachines == 10
EnterpriseMaxMachines == 100
PaidValidDays == 365

\* ------------------------------------------------------------------ inputs
CustIds == {"c1", "c2"}
Keys == {"KA", "KB", "KX"}
\* Fingerprints of machines that ask for activation; a request of the other
\* endpoints may also carry the empty fingerprint.
Fingerprints == {"F1", "F2"}
FingerprintInputs == Fingerprints \cup {""}
Procs == {"p1", "p2"}
\* create-customer requests: c1 is a trial customer, c2 a pro customer, both
\* with the quota of their tier (machine_limit None) and one day of validity.
CreateInputs == {<<"c1", "trial", 0, 1>>, <<"c2", "pro", 0, 1>>}

ServiceNames == {"frontend", "backend", "analytics", "monitoring"}
PermissionNames == {"dashboard", "analytics", "reports", "api", "integrations",
                    "custom_modules", "white_label", "sso"}

VARIABLES customers, machines, now, resp, act, host, derivation, manager

vars == <<customers, machines, now, resp, act, host, derivation, manager>>

\* ------------------------------------------------------------ tier tables
TierMaxMachines(tier) ==
    CASE tier = "trial" -> TrialMaxMachines
      [] tier = "pro" -> ProMaxMachines
      [] tier = "enterprise" -> EnterpriseMaxMachines
      [] OTHER -> BasicMaxMachines

TierValidDays(tier) ==
    IF tier = "trial" THEN TrialValidDays ELSE PaidValidDays

\* TIER_SERVICES.get(tier, default)
TIER_SERVICES(tier, default) ==
    CASE tier = "trial" -> {"frontend"}
      [] tier = "basic" -> {"frontend", "backend"}
      [] tier = "pro" -> {"frontend", "backend", "analytics"}
      [] tier = "enterprise" -> {"frontend", "backend", "analytics", "monitoring"}
      [] OTHER -> default

BuildServicePermissions(tier) ==
    CASE tier = "trial" -> {"dashboard"}
      [] tier = "basic" -> {"dashboard", "analytics", "reports"}
      [] tier = "pro" -> {"dashboard", "analytics", "reports", "api", "integrations"}
      [] tier = "enterprise" -> PermissionNames
      [] OTHER -> {"dashboard"}

\* ------------------------------------------------------------- the store
NoCustomer == [exists |-> FALSE]
NoMachine == [exists |-> FALSE]
NoCert == [certificate_id |-> 0]
NoAct == [pc |-> "idle"]

\* A host before installation: hardware with fingerprint F1, an empty license
\* directory (no machine_id.json, no certificate.json), SERVICE_NAME at its
\* default, no validator process yet (thread: the revalidation thread of
\* the validator process, "none" before it is started, "dead" once the
\* process has ended).
NoHost ==
    [hardware |-> "F1", pin |-> "none", certificate |-> NoCert,
     service |-> "frontend", state |-> "UNACTIVATED", reason |-> "", thread |-> "none",
     files |-> {}, installer |-> "closed", fingerprint |-> ""]

\* The probes of the fingerprint derivation, the platforms platform.system()
\* tells apart, and the random tokens uuid4 may yield.
Probes == {"hostname", "system", "machine", "machine_guid", "cpu", "machine_id"}
Platforms == {"Windows", "Linux", "Other"}
RandomTokens == {"random:1", "random:2"}

\* Fingerprint derivations on one host: its platform, the probes that
\* succeed, whether machine_id.json exists, and what the validator's and
\* the installer's derivation returned so far.
NoDerivation ==
    [system |-> "Linux", probes |-> Probes, pinned |-> FALSE,
     results |-> <<>>, installed |-> <<>>]

\* The legacy client's CertificateManager: certificate.dat (NoFile when
\* absent), what load_certificate returned last, and what was saved last.
NoFile == [key |-> "none"]

NoManager ==
    [cert_file |-> NoFile, loaded |-> NoCert,
     saved_certificate |-> NoCert, saved_fingerprint |-> "",
     public_key |-> "", result |-> [valid |-> FALSE, reason |-> ""]]

\* generate_product_key draws the key at random and the column is UNIQUE:
\* each customer has its own key; "KX" is the key of no customer.
ProductKeyOf(c) == IF c = "c1" THEN "KA" ELSE "KB"

get_customer_by_product_key(k) ==
    LET found == {c \in CustIds : customers[c].exists /\ customers[c].product_key = k}
    IN  IF found = {} THEN "none" ELSE CHOOSE c \in found : TRUE

get_machine_by_fingerprint(f) ==
    IF f \in Fingerprints THEN machines[f] ELSE NoMachine

\* The count without its status filter (revoked rows counted too).
count_active_machines_AnyStatus(c) ==
    Cardinality({f \in Fingerprints :
        /\ machines[f].exists
        /\ machines[f].customer_id = c})

count_active_machines(c) ==
    Cardinality({f \in Fingerprints :
        /\ machines[f].exists
        /\ machines[f].customer_id = c
        /\ machines[f].status = "active"})

\* ----------------------------------------------------------- certificates
\* The certificate with `signature` and `signature_timestamp` removed: what
\* json.dumps(cert_copy_for_sig, sort_keys=True) serialises.
Unsigned(c) ==
    [certificate_id |-> c.certificate_id,
     tier |-> c.tier,
     customer_id |-> c.customer_id,
     product_key |-> c.product_key,
     machine_fingerprint |-> c.machine_fingerprint,
     issued_at |-> c.issued_at,
     has_valid_until |-> c.has_valid_until,
     valid_until |-> c.valid_until,
     limits |-> c.limits,
     max_machines |-> c.max_machines,
     services |-> c.services,
     enabled |-> c.enabled,
     parent_certificate_id |-> c.parent_certificate_id,
     upgrade_count |-> c.upgrade_count]

\* An RSA-PSS signature is modelled by the content it was computed over:
\* it verifies exactly over that content.
WithSignature(c, sig) ==
    [certificate_id |-> c.certificate_id,
     tier |-> c.tier,
     customer_id |-> c.customer_id,
     product_key |-> c.product_key,
     machine_fingerprint |-> c.machine_fingerprint,
     issued_at |-> c.issued_at,
     has_valid_until |-> c.has_valid_until,
     valid_until |-> c.valid_until,
     limits |-> c.limits,
     max_machines |-> c.max_machines,
     services |-> c.services,
     enabled |-> c.enabled,
     parent_certificate_id |-> c.parent_certificate_id,
     upgrade_count |-> c.upgrade_count,
     signature |-> sig]

add_cryptographic_layers(c) == WithSignature(c, Unsigned(c))

VerifySignature(c) == c.certificate_id # 0 /\ Unsigned(c) = c.signature

\* uuid4 draws an identifier no certificate carries yet.  Identifiers are
\* only ever compared with those of the certificates still held (stored in
\* a machine row, or in the last response), so the least one unused among
\* those stands for the fresh one.
CertificateIdsInUse ==
    {machines[f].certificate.certificate_id : f \in {g \in Fingerprints : machines[g].exists}}
        \cup {machines[f].certificate.parent_certificate_id :
                  f \in {g \in Fingerprints : machines[g].exists}}
        \cup {resp.certificate.certificate_id}
        \cup (IF resp.certificate.certificate_id # 0
              THEN {resp.certificate.parent_certificate_id} ELSE {})

NewCertificateId ==
    CHOOSE i \in 1..(Cardinality(CertificateIdsInUse) + 1) :
        /\ i \notin CertificateIdsInUse
        /\ \A j \in 1..(i - 1) : j \in CertificateIdsInUse

\* valid_days, machine_limit: 0 stands for None (`x or default` treats both
\* alike); custom_services: {} stands for None or []; parent: 0 for None.
generate_certificate(id, customer_id, product_key, fp, tier, valid_days, machine_limit, custom_services, parent) ==
    LET actual_valid_days == IF valid_days # 0 THEN valid_days ELSE TierValidDays(tier)
        actual_machine_limit ==
            IF machine_limit # 0 THEN machine_limit ELSE TierMaxMachines(tier)
        allowed_services ==
            IF custom_services # {} THEN custom_services
            ELSE TIER_SERVICES(tier, {"frontend"})
    IN  add_cryptographic_layers(
            [certificate_id |-> id,
             tier |-> tier,
             customer_id |-> customer_id,
             product_key |-> product_key,
             machine_fingerprint |-> fp,
             issued_at |-> now,
             has_valid_until |-> TRUE,
             valid_until |-> now + actual_valid_days * TicksPerDay,
             limits |-> "tier",
             max_machines |-> actual_machine_limit,
             services |-> BuildServicePermissions(tier),
             enabled |-> allowed_services \cap ServiceNames,
             parent_certificate_id |-> parent,
             upgrade_count |-> IF parent = 0 THEN 0 ELSE 1])

\* --------------------------------------------------------------- responses
Response(op, key, fp, status, valid, reason, cert, current) ==
    [op |-> op, key |-> key, fp |-> fp, status |-> status, valid |-> valid,
     reason |-> reason, certificate |-> cert, current |-> current]

\* ------------------------------------------------------------------- Init
Init ==
    /\ customers = [c \in CustIds |-> NoCustomer]
    /\ machines = [f \in Fingerprints |-> NoMachine]
    /\ now = 0
    /\ resp = Response("none", "", "", 0, FALSE, "", NoCert, 0)
    /\ act = [p \in Procs |-> NoAct]
    /\ host = NoHost
    /\ derivation = NoDerivation
    /\ manager = NoManager

\* ------------------------------------------------------- create-customer
create_customer_endpoint(c, tier, machine_limit, valid_days) ==
    /\ ~customers[c].exists
    /\ customers' = [customers EXCEPT ![c] =
            [exists |-> TRUE,
             product_key |-> ProductKeyOf(c),
             machine_limit |->
                 IF machine_limit # 0 THEN machine_limit ELSE TierMaxMachines(tier),
             valid_days |-> IF valid_days # 0 THEN valid_days ELSE TierValidDays(tier),
             tier |-> tier,
             revoked |-> FALSE]]
    /\ resp' = Response("create_customer", ProductKeyOf(c), "", 200, TRUE, "ok", NoCert, 0)
    /\ UNCHANGED <<machines, now, act, host, derivation, manager>>

\* --------------------------------------------------------------- activate
\* The rejections with the quota check ahead of the revoked-customer check.
ActivateRejection_QuotaFirst(k, f) ==
    LET c == get_customer_by_product_key(k) IN
    IF c = "none"
    THEN Response("activate", k, f, 404, FALSE, "product_key_not_found", NoCert, 0)
    ELSE IF count_active_machines(c) >= customers[c].machine_limit
    THEN Response("activate", k, f, 403, FALSE, "machine_limit_exceeded", NoCert,
                  count_active_machines(c))
    ELSE IF customers[c].revoked
    THEN Response("activate", k, f, 403, FALSE, "customer_revoked", NoCert, 0)
    ELSE Response("none", k, f, 0, FALSE, "", NoCert, 0)

\* The rejections of lines 355-374, in the order of the code; "none" when
\* the request passes them.  The nested handler of lines 322-351 is only
\* defined (and registered behind the outer route) by each call, never run.
ActivateRejection(k, f) ==
    LET c == get_customer_by_product_key(k) IN
    IF c = "none"
    THEN Response("activate", k, f, 404, FALSE, "product_key_not_found", NoCert, 0)
    ELSE IF customers[c].revoked
    THEN Response("activate", k, f, 403, FALSE, "customer_revoked", NoCert, 0)
    ELSE IF count_active_machines(c) >= customers[c].machine_limit
    THEN Response("activate", k, f, 403, FALSE, "machine_limit_exceeded", NoCert,
                  count_active_machines(c))
    ELSE Response("none", k, f, 0, FALSE, "", NoCert, 0)

\* register_machine: the INSERT; fingerprint is UNIQUE, so a second row for
\* the same fingerprint raises sqlite3.IntegrityError (HTTP 500).
register_machine(c, f, cert) ==
    [exists |-> TRUE, customer_id |-> c, machine_id |-> "NULL",
     status |-> "active", certificate |-> cert]

\* The mint with INSERT OR REPLACE in the place of INSERT.
ActivateMint_Replace(k, f, c, cust) ==
    LET cert == generate_certificate(NewCertificateId, c, k, f, cust.tier,
                                     cust.valid_days, cust.machine_limit, {}, 0)
    IN  /\ machines' = [machines EXCEPT ![f] = register_machine(c, f, cert)]
        /\ resp' = Response("activate", k, f, 200, TRUE, "ok", cert, 0)

\* Lines 376-436 for a request that passed the checks with customer row cust.
ActivateMint(k, f, c, cust) ==
    LET cert == generate_certificate(NewCertificateId, c, k, f, cust.tier,
                                     cust.valid_days, cust.machine_limit, {}, 0)
    IN  IF machines[f].exists
        THEN /\ resp' = Response("activate", k, f, 500, FALSE, "integrity_error", NoCert, 0)
             /\ UNCHANGED machines
        ELSE /\ machines' = [machines EXCEPT ![f] = register_machine(c, f, cert)]
              /\ resp' = Response("activate", k, f, 200, TRUE, "ok", cert, 0)

activate_machine(k, f) ==
    /\ IF ActivateRejection(k, f).op # "none"
       THEN /\ resp' = ActivateRejection(k, f)
            /\ UNCHANGED machines
       ELSE LET c == get_customer_by_product_key(k)
            IN  ActivateMint(k, f, c, customers[c])
    /\ UNCHANGED <<customers, now, act, host, derivation, manager>>

\* The same handler as two store steps of a worker process p: the reads
\* (customer row, COUNT(*)) and, in a transaction of its own, the INSERT.
\* Each db.py function opens and commits its own connection; nothing holds
\* a lock from the count to the insert.
activate_count(p, k, f) ==
    /\ act[p].pc = "idle"
    /\ IF ActivateRejection(k, f).op # "none"
       THEN /\ resp' = ActivateRejection(k, f)
            /\ UNCHANGED act
       ELSE /\ act' = [act EXCEPT ![p] =
                    [pc |-> "counted", key |-> k, fp |-> f,
                     customer_id |-> get_customer_by_product_key(k),
                     customer |-> customers[get_customer_by_product_key(k)]]]
            /\ UNCHANGED resp
    /\ UNCHANGED <<customers, machines, now, host, derivation, manager>>

activate_insert(p) ==
    /\ act[p].pc = "counted"
    /\ ActivateMint(act[p].key, act[p].fp, act[p].customer_id, act[p].customer)
    /\ act' = [act EXCEPT ![p] = NoAct]
    /\ UNCHANGED <<customers, now, host, derivation, manager>>

\* ----------------------------------------------------------------- revoke
revoke_machine_endpoint(f) ==
    /\ IF machines[f].exists
       THEN /\ machines' = [machines EXCEPT ![f].status = "revoked"]
            /\ resp' = Response("revoke_machine", "", f, 200, TRUE, "ok", NoCert, 0)
       ELSE /\ resp' = Response("revoke_machine", "", f, 404, FALSE, "machine_not_found",
                                NoCert, 0)
            /\ UNCHANGED machines
    /\ UNCHANGED <<customers, now, act, host, derivation, manager>>

revoke_customer(c) ==
    /\ customers[c].exists
    /\ customers' = [customers EXCEPT ![c].revoked = TRUE]
    /\ resp' = Response("revoke_customer", ProductKeyOf(c), "", 200, TRUE, "ok", NoCert, 0)
    /\ UNCHANGED <<machines, now, act, host, derivation, manager>>

\* -------------------------------------------------------------- heartbeat
\* The heartbeat verdict without the check of the owning customer.
HeartbeatResult_MachineOnly(f) ==
    LET machine == get_machine_by_fingerprint(f) IN
    IF f = ""
    THEN Response("heartbeat", "", f, 200, FALSE, "missing_fingerprint", NoCert, 0)
    ELSE IF ~machine.exists
    THEN Response("heartbeat", "", f, 200, FALSE, "machine_not_found", NoCert, 0)
    ELSE IF machine.status # "active"
    THEN Response("heartbeat", "", f, 200, FALSE, "machine_revoked", NoCert, 0)
    ELSE Response("heartbeat", "", f, 200, TRUE, "ok", NoCert, 0)

\* The first handler registered for POST /api/v1/heartbeat (lines 238-302)
\* answers every request; the second registration (747-754) is shadowed.
HeartbeatResult(f) ==
    LET machine == get_machine_by_fingerprint(f) IN
    IF f = ""
    THEN Response("heartbeat", "", f, 200, FALSE, "missing_fingerprint", NoCert, 0)
    ELSE IF ~machine.exists
    THEN Response("heartbeat", "", f, 200, FALSE, "machine_not_found", NoCert, 0)
    ELSE IF machine.status # "active"
    THEN Response("heartbeat", "", f, 200, FALSE, "machine_revoked", NoCert, 0)
    ELSE IF ~customers[machine.customer_id].exists
    THEN Response("heartbeat", "", f, 200, FALSE, "customer_not_found", NoCert, 0)
    ELSE IF customers[machine.customer_id].revoked
    THEN Response("heartbeat", "", f, 200, FALSE, "customer_revoked", NoCert, 0)
    ELSE Response("heartbeat", "", f, 200, TRUE, "ok", NoCert, 0)

heartbeat(f) ==
    /\ resp' = HeartbeatResult(f)
    /\ UNCHANGED <<customers, machines, now, act, host, derivation, manager>>

\* --------------------------------------------------------------- validate
\* "<image>:<tag>" of a docker service, with the default tag.
ImageOf(s) == <<"image", s>>

\* The validation verdict without the grace period.
ValidateResult_NoGrace(cert, fp, service, docker_image) ==
    LET machine == get_machine_by_fingerprint(fp) IN
    IF cert.machine_fingerprint = ""
    THEN Response("validate", service, fp, 200, FALSE, "missing_fingerprint", NoCert, 0)
    ELSE IF cert.machine_fingerprint # fp
    THEN Response("validate", service, fp, 200, FALSE, "fingerprint_mismatch", NoCert, 0)
    ELSE IF ~machine.exists
    THEN Response("validate", service, fp, 200, FALSE, "machine_not_found", NoCert, 0)
    ELSE IF machine.status = "revoked"
    THEN Response("validate", service, fp, 200, FALSE, "revoked", NoCert, 0)
    ELSE IF cert.has_valid_until /\ now > cert.valid_until
    THEN Response("validate", service, fp, 200, FALSE, "expired", NoCert, 0)
    ELSE IF service # "" /\ service \notin cert.services
    THEN Response("validate", service, fp, 200, FALSE, "service_not_allowed", NoCert, 0)
    ELSE IF docker_image # <<>> /\ docker_image \notin {ImageOf(x) : x \in cert.enabled}
    THEN Response("validate", service, fp, 200, FALSE, "docker_image_not_allowed", NoCert, 0)
    ELSE Response("validate", service, fp, 200, TRUE, "ok", NoCert, 0)

\* The validation verdict without the check of the machine's status.
ValidateResult_NoStatusCheck(cert, fp, service, docker_image) ==
    LET machine == get_machine_by_fingerprint(fp)
        grace_until == cert.valid_until + GraceDays * TicksPerDay
    IN
    IF cert.machine_fingerprint = ""
    THEN Response("validate", service, fp, 200, FALSE, "missing_fingerprint", NoCert, 0)
    ELSE IF cert.machine_fingerprint # fp
    THEN Response("validate", service, fp, 200, FALSE, "fingerprint_mismatch", NoCert, 0)
    ELSE IF ~machine.exists
    THEN Response("validate", service, fp, 200, FALSE, "machine_not_found", NoCert, 0)
    ELSE IF cert.has_valid_until /\ now > cert.valid_until /\ now > grace_until
    THEN Response("validate", service, fp, 200, FALSE, "expired", NoCert, 0)
    ELSE IF cert.has_valid_until /\ now > cert.valid_until
    THEN Response("validate", service, fp, 200, TRUE, "grace_period", NoCert, 0)
    ELSE IF service # "" /\ service \notin cert.services
    THEN Response("validate", service, fp, 200, FALSE, "service_not_allowed", NoCert, 0)
    ELSE IF docker_image # <<>> /\ docker_image \notin {ImageOf(x) : x \in cert.enabled}
    THEN Response("validate", service, fp, 200, FALSE, "docker_image_not_allowed", NoCert, 0)
    ELSE Response("validate", service, fp, 200, TRUE, "ok", NoCert, 0)

\* service, docker_image: "" stands for None (both are falsy).
ValidateResult(cert, fp, service, docker_image) ==
    LET machine == get_machine_by_fingerprint(fp)
        grace_until == cert.valid_until + GraceDays * TicksPerDay
    IN
    IF cert.machine_fingerprint = ""
    THEN Response("validate", service, fp, 200, FALSE, "missing_fingerprint", NoCert, 0)
    ELSE IF cert.machine_fingerprint # fp
    THEN Response("validate", service, fp, 200, FALSE, "fingerprint_mismatch", NoCert, 0)
    ELSE IF ~machine.exists
    THEN Response("validate", service, fp, 200, FALSE, "machine_not_found", NoCert, 0)
    ELSE IF machine.status = "revoked"
    THEN Response("validate", service, fp, 200, FALSE, "revoked", NoCert, 0)
    ELSE IF cert.has_valid_until /\ now > cert.valid_until /\ now > grace_until
    THEN Response("validate", service, fp, 200, FALSE, "expired", NoCert, 0)
    ELSE IF cert.has_valid_until /\ now > cert.valid_until
    THEN Response("validate", service, fp, 200, TRUE, "grace_period", NoCert, 0)
    ELSE IF service # "" /\ service \notin cert.services
    THEN Response("validate", service, fp, 200, FALSE, "service_not_allowed", NoCert, 0)
    ELSE IF docker_image # <<>> /\ docker_image \notin {ImageOf(x) : x \in cert.enabled}
    THEN Response("validate", service, fp, 200, FALSE, "docker_image_not_allowed", NoCert, 0)
    ELSE Response("validate", service, fp, 200, TRUE, "ok", NoCert, 0)

validate_certificate(cert, fp, service, docker_image) ==
    /\ resp' = ValidateResult(cert, fp, service, docker_image)
    /\ UNCHANGED <<customers, machines, now, act, host, derivation, manager>>

\* Certificates a client can send: the ones the Issuer stored or returned
\* last, and edited copies of them (validate checks no signature).
IssuedCertificates ==
    {machines[f].certificate : f \in {g \in Fingerprints : machines[g].exists}}
        \cup (IF resp.certificate.certificate_id # 0 THEN {resp.certificate} ELSE {})

EditedCopies(c) ==
    {[c EXCEPT !.has_valid_until = FALSE], [c EXCEPT !.machine_fingerprint = ""]}

CertificateInputs == IssuedCertificates \cup UNION {EditedCopies(c) : c \in IssuedCertificates}

\* <<service, docker_image>> of a validate request.
CheckInputs ==
    {<<"", <<>>>>, <<"analytics", <<>>>>, <<"backend", <<>>>>, <<"nosuch", <<>>>>,
     <<"", ImageOf("backend")>>}

\* ---------------------------------------------------------------- upgrade
\* AdvancedCertificateGenerator.upgrade_certificate; None is 0 / {} / "".
\* (a - b).days floors, as \div does.
UpgradeCertificate(old, id, new_tier, additional_days, new_machine_limit, additional_services) ==
    LET tier == IF new_tier # "" THEN new_tier ELSE old.tier
        valid_days ==
            IF additional_days # 0
            THEN (old.valid_until + additional_days * TicksPerDay - now) \div TicksPerDay
            ELSE (old.valid_until - now) \div TicksPerDay
        machine_limit ==
            IF new_machine_limit # 0 THEN new_machine_limit ELSE old.max_machines
        allowed_services ==
            IF additional_services # {} THEN old.enabled \cup additional_services
            ELSE TIER_SERVICES(tier, old.enabled)
        new_cert == generate_certificate(id, old.customer_id, old.product_key,
                        old.machine_fingerprint, tier, valid_days, machine_limit,
                        allowed_services, old.certificate_id)
    IN  [new_cert EXCEPT !.upgrade_count = old.upgrade_count + 1]

\* update_license(machine['machine_id'], new_certificate): UPDATE ... WHERE
\* machine_id = ?.  The machine_id column is the one register_machine never
\* fills, so the value is NULL and the UPDATE matches no row.
update_license(machine_id, cert) ==
    [f \in Fingerprints |->
        IF machines[f].exists /\ machine_id # "NULL" /\ machines[f].machine_id = machine_id
        THEN [machines[f] EXCEPT !.certificate = cert]
        ELSE machines[f]]

upgrade_certificate(f, new_tier, additional_days, new_machine_limit, additional_services) ==
    LET machine == get_machine_by_fingerprint(f) IN
    /\ IF ~machine.exists
       THEN /\ resp' = Response("upgrade", "", f, 404, FALSE, "machine_not_found", NoCert, 0)
            /\ UNCHANGED machines
       ELSE IF new_machine_limit = 0 /\ machine.certificate.limits # "tier"
       THEN \* old_certificate["limits"]["max_machines"]: KeyError
            /\ resp' = Response("upgrade", "", f, 500, FALSE, "key_error", NoCert, 0)
            /\ UNCHANGED machines
       ELSE /\ LET new == UpgradeCertificate(machine.certificate, NewCertificateId, new_tier,
                              additional_days, new_machine_limit, additional_services)
               IN  /\ machines' = update_license(machine.machine_id, new)
                   /\ resp' = Response("upgrade", "", f, 200, TRUE, "ok", new, 0)
    /\ UNCHANGED <<customers, now, act, host, derivation, manager>>

UpgradeInputs == {<<"", 0, 0, {}>>, <<"pro", 1, 2, {"monitoring"}>>}

\* ------------------------------------------------ custom certificate
\* services_on / services_off: the names the request maps to true / false.
update_machine_certificate(f, cert) == [machines EXCEPT ![f].certificate = cert]

generate_custom_certificate(c, f, services_on, services_off, save_to_db) ==
    /\ IF ~customers[c].exists
       THEN /\ resp' = Response("custom", ProductKeyOf(c), f, 404, FALSE,
                                "customer_not_found", NoCert, 0)
            /\ UNCHANGED machines
       ELSE /\ LET signed == generate_certificate(NewCertificateId, c, customers[c].product_key, f,
                                 "custom", 1, BasicMaxMachines, {}, 0)
                   certificate ==
                       [signed EXCEPT
                           !.enabled = (@ \cup (services_on \cap ServiceNames)) \ services_off,
                           !.limits = "custom",
                           !.max_machines = 0]
               IN  /\ machines' =
                          IF ~save_to_db THEN machines
                          ELSE IF machines[f].exists
                          THEN update_machine_certificate(f, certificate)
                          ELSE [machines EXCEPT ![f] = register_machine(c, f, certificate)]
                   /\ resp' = Response("custom", customers[c].product_key, f, 200, TRUE,
                                       "ok", certificate, 0)
    /\ UNCHANGED <<customers, now, act, host, derivation, manager>>

\* custom-generate requests: either customer, for the machine F2, switching
\* monitoring on and frontend off, saved to the store or not.
CustomInputs ==
    {<<c, "F2", {"monitoring"}, {"frontend"}, save>> : c \in CustIds, save \in BOOLEAN}

\* -------------------------------------------------------- update_customer
\* UPDATE customers SET <column> = ? WHERE id = ?, for any column.
update_customer(c, column, value) ==
    /\ customers[c].exists
    /\ customers' =
           IF column = "revoked" THEN [customers EXCEPT ![c].revoked = (value # 0)]
           ELSE [customers EXCEPT ![c].machine_limit = value]
    /\ resp' = Response("update_customer", ProductKeyOf(c), "", 200, TRUE, "ok", NoCert, 0)
    /\ UNCHANGED <<machines, now, act, host, derivation, manager>>

UpdateInputs == {<<"revoked", 0>>, <<"revoked", 1>>}

\* ------------------------------------------------------------------ clock
Advance(t) ==
    /\ now < t
    /\ t <= MaxTime
    /\ now' = t
    /\ UNCHANGED <<customers, machines, resp, act, host, derivation, manager>>

\* The instants at which requests read the clock after time 0: a tick (part
\* of a day) later, a tick past one day, and a tick past one day and the grace
\* period, so that a one-day certificate issued at 0 is seen valid, then in
\* grace, then expired.
ClockReadings == {1, TicksPerDay + 1, (GraceDays + 1) * TicksPerDay + 1}

\* --------------------------------------------------------------- Enforcer
\* SERVICE_NAME of the protected container: an enabled or disabled service
\* of the certificate, or a name the certificate does not list.
EnforcerServices == {"frontend", "monitoring", "nosuch"}

\* The content of machine_id.json: "none" when the file is absent, "" when
\* it holds no fingerprint (or cannot be read), else the saved fingerprint.
PinInputs == {"none", ""} \cup Fingerprints

\* The files _do_activation writes besides machine_id.json, for an
\* activation bundle that carries registry credentials and a compose file.
CertificateFiles == {"certificate.dat", ".fingerprint", "certificate.json"}
BundleFiles ==
    CertificateFiles \cup {"docker_credentials.dat", "docker-compose.yml", "public_key.pem"}

\* The installer run to completion on a host without license directory:
\* on hardware h MachineFingerprint.get_fingerprint pins the
\* fingerprint it derived, FileManager.save_certificate writes the
\* certificate of the activation response; the container is configured for
\* service svc.
install_bundle(h, svc) ==
    /\ resp.op = "activate" /\ resp.status = 200 /\ resp.fp = h
    /\ host' = [hardware |-> h, pin |-> h, certificate |-> resp.certificate,
                service |-> svc, state |-> "INSTALLED", reason |-> "", thread |-> "none",
                files |-> BundleFiles, installer |-> "closed", fingerprint |-> h]
    /\ UNCHANGED <<customers, machines, now, resp, act, derivation, manager>>

\* The license directory is copied from the host it was installed on to a
\* host with hardware h; machine_id.json arrives as pin (copied along, left
\* out, or without a fingerprint).
copy_bundle(h, pin) ==
    /\ host.state # "UNACTIVATED"
    /\ host.hardware = host.certificate.machine_fingerprint
    /\ h # host.hardware
    /\ pin \in {host.pin, "none", ""}
    /\ host' = [host EXCEPT !.hardware = h, !.pin = pin,
                            !.state = "INSTALLED", !.reason = "", !.thread = "none"]
    /\ UNCHANGED <<customers, machines, now, resp, act, derivation, manager>>

\* certificate.json of the license directory is overwritten while the
\* Enforcer runs (the directory is a volume of the host): with a certificate
\* the Issuer holds, or with an edited copy of the present one.  Every
\* revalidation pass reads the file anew.
WrittenCertificates ==
    {machines[f].certificate : f \in {g \in Fingerprints : machines[g].exists}}
        \cup EditedCopies(host.certificate)

write_certificate(c) ==
    /\ host.state = "RUNNING"
    /\ c # host.certificate
    /\ host' = [host EXCEPT !.certificate = c]
    /\ UNCHANGED <<customers, machines, now, resp, act, derivation, manager>>

\* get_machine_fingerprint: "" stands for None.
get_machine_fingerprint ==
    IF host.pin \notin {"none", ""} /\ host.pin # host.hardware THEN "" ELSE host.hardware

\* check_expiry: "expired", "grace_period" or "valid"; a certificate without
\* valid_until raises and gives "expiry_check_failed".
check_expiry(certificate) ==
    IF ~certificate.has_valid_until THEN "expiry_check_failed"
    ELSE IF now > certificate.valid_until + GRACE_PERIOD_DAYS * TicksPerDay THEN "expired"
    ELSE IF now > certificate.valid_until THEN "grace_period"
    ELSE "valid"

\* check_service_permission: a service the docker map does not list is
\* allowed by default.
check_service_permission(certificate, service_name) ==
    IF service_name \in ServiceNames THEN service_name \in certificate.enabled ELSE TRUE

\* validate_license: <<valid, reason>>.  public_key.pem is part of every
\* bundle; check_revocation posts a heartbeat without machine_fingerprint and
\* reads the key `revoked`, which no heartbeat answer carries, so it passes
\* whether the server is reached or not.
validate_license ==
    IF get_machine_fingerprint = "" THEN <<FALSE, "fingerprint_generation_failed">>
    ELSE IF host.certificate = NoCert THEN <<FALSE, "certificate_not_found">>
    ELSE IF ~VerifySignature(host.certificate) THEN <<FALSE, "invalid_signature">>
    ELSE IF check_expiry(host.certificate) \in {"expired", "expiry_check_failed"}
    THEN <<FALSE, check_expiry(host.certificate)>>
    ELSE IF host.certificate.machine_fingerprint # get_machine_fingerprint
    THEN <<FALSE, "fingerprint_mismatch">>
    ELSE IF ~check_service_permission(host.certificate, host.service)
    THEN <<FALSE, "service_disabled">>
    ELSE <<TRUE, "valid">>

\* main: the startup check.  A valid license starts the revalidation thread
\* and lets the application start (RUNNING); an invalid one serves the error
\* page with the reason on the application port (INVALID).
main ==
    /\ host.state = "INSTALLED"
    /\ host' = [host EXCEPT !.state = IF validate_license[1] THEN "RUNNING" ELSE "INVALID",
                            !.reason = validate_license[2],
                            !.thread = IF validate_license[1] THEN "alive" ELSE "none"]
    /\ UNCHANGED <<customers, machines, now, resp, act, derivation, manager>>

\* main after revalidation_thread.start(): sys.exit(0).  The thread is a
\* daemon, so it ends with the validator process; the application, started
\* on exit status 0, keeps running.
main_exit ==
    /\ host.state = "RUNNING"
    /\ host.thread = "alive"
    /\ host' = [host EXCEPT !.thread = "dead"]
    /\ UNCHANGED <<customers, machines, now, resp, act, derivation, manager>>

\* What becomes of the heartbeat request of a revalidation pass: it does not
\* reach the Issuer (network failure, timeout, non-200 status: urlopen
\* raises), it is answered by the handler's checks, or a store call of the
\* handler raises and its except branch answers server_error.
HeartbeatOutcomes == {"unreachable", "answered", "server_error"}

HeartbeatAnswer(f, net) ==
    IF net = "server_error"
    THEN Response("heartbeat", "", f, 200, FALSE, "server_error", NoCert, 0)
    ELSE HeartbeatResult(f)

\* One pass of the loop of periodic_revalidation, run by the thread main
\* started for as long as that thread lives.  os.kill(getpid(), SIGTERM)
\* ends the process: TERMINATED.
RevalidationVerdict(net) ==
    IF host.certificate = NoCert THEN "certificate_not_found"
    ELSE IF host.certificate.has_valid_until /\ now > host.certificate.valid_until
    THEN "expired"
    ELSE IF get_machine_fingerprint = "" THEN "fingerprint_verification_failed"
    ELSE IF net # "unreachable" /\ ~HeartbeatAnswer(get_machine_fingerprint, net).valid
    THEN "revoked"
    ELSE "passed"

periodic_revalidation(net) ==
    /\ host.state = "RUNNING"
    /\ host.thread = "alive"
    /\ host' = [host EXCEPT
                   !.state = IF RevalidationVerdict(net) = "passed"
                             THEN "RUNNING" ELSE "TERMINATED",
                   !.reason = RevalidationVerdict(net),
                   !.thread = IF RevalidationVerdict(net) = "passed"
                              THEN "alive" ELSE "dead"]
    /\ resp' = IF net # "unreachable" /\ RevalidationVerdict("unreachable") = "passed"
               THEN HeartbeatAnswer(get_machine_fingerprint, net) ELSE resp
    /\ UNCHANGED <<customers, machines, now, act, derivation, manager>>

\* -------------------------------------------------------------- installer
\* MachineFingerprint._generate_fingerprint: the fingerprint of the hardware.
generate_fingerprint == host.hardware

\* A variant of get_fingerprint that derives the fingerprint from the
\* hardware on every call.
get_fingerprint_Recomputed == generate_fingerprint

\* MachineFingerprint.get_fingerprint: the fingerprint saved in
\* machine_id.json when the file exists, else the one derived now.
get_fingerprint ==
    IF host.pin # "none" THEN host.pin ELSE generate_fingerprint

\* FileManager.is_activated
is_activated == "certificate.dat" \in host.files

\* SetupWizard.__init__: the installer is launched, in management mode on
\* an activated host and as the setup wizard otherwise.
SetupWizard_init ==
    /\ host.installer = "closed"
    /\ host' = [host EXCEPT !.installer = IF is_activated THEN "management" ELSE "wizard"]
    /\ UNCHANGED <<customers, machines, now, resp, act, derivation, manager>>

\* _do_activation up to the request: it runs from the activation page of
\* the wizard (whose button on_enter disables on an activated host) or
\* after a failed attempt re-enabled the button; get_fingerprint writes
\* machine_id.json when the file is absent.
do_activation ==
    /\ \/ host.installer = "wizard" /\ ~is_activated
       \/ host.installer = "failed"
    /\ host' = [host EXCEPT !.fingerprint = get_fingerprint,
                            !.pin = IF host.pin = "none" THEN generate_fingerprint
                                    ELSE host.pin,
                            !.installer = "activating"]
    /\ resp' = Response("none", "", "", 0, FALSE, "", NoCert, 0)
    /\ UNCHANGED <<customers, machines, now, act, derivation, manager>>

\* ActivationClient.activate: the request with product key k and the
\* installer's fingerprint, answered by the Issuer.
ActivationClient_activate(k) ==
    /\ host.installer = "activating"
    /\ resp.op = "none"
    /\ host.fingerprint \in Fingerprints
    /\ activate_machine(k, host.fingerprint)

\* _do_activation after a successful answer: FileManager.save_certificate
\* writes certificate.dat, .fingerprint and certificate.json.
FileManager_save_certificate ==
    /\ host.installer = "activating"
    /\ resp.op = "activate" /\ resp.status = 200
    /\ host' = [host EXCEPT !.certificate = resp.certificate,
                            !.files = @ \cup CertificateFiles,
                            !.installer = "certificate"]
    /\ UNCHANGED <<customers, machines, now, resp, act, derivation, manager>>

FileManager_save_docker_credentials ==
    /\ host.installer = "certificate"
    /\ host' = [host EXCEPT !.files = @ \cup {"docker_credentials.dat"},
                            !.installer = "credentials"]
    /\ UNCHANGED <<customers, machines, now, resp, act, derivation, manager>>

FileManager_save_compose_file ==
    /\ host.installer = "credentials"
    /\ host' = [host EXCEPT !.files = @ \cup {"docker-compose.yml"},
                            !.installer = "compose"]
    /\ UNCHANGED <<customers, machines, now, resp, act, derivation, manager>>

\* The last write of _do_activation; the bundle is complete.
FileManager_save_public_key ==
    /\ host.installer = "compose"
    /\ host' = [host EXCEPT !.files = @ \cup {"public_key.pem"},
                            !.installer = "activated",
                            !.state = "INSTALLED", !.reason = "", !.thread = "none"]
    /\ UNCHANGED <<customers, machines, now, resp, act, derivation, manager>>

\* The except branch of _do_activation: the Issuer refused the activation,
\* or a write of the remaining files raised; the button is enabled again.
do_activation_except ==
    /\ \/ host.installer = "activating" /\ resp.op = "activate" /\ resp.status # 200
       \/ host.installer \in {"certificate", "credentials", "compose"}
    /\ host' = [host EXCEPT !.installer = "failed"]
    /\ UNCHANGED <<customers, machines, now, resp, act, derivation, manager>>

\* The installer window is closed (the activation thread is a daemon and
\* ends with it).
close_installer ==
    /\ host.installer # "closed"
    /\ host' = [host EXCEPT !.installer = "closed"]
    /\ UNCHANGED <<customers, machines, now, resp, act, derivation, manager>>

\* The hardware under the license directory changes to one with
\* fingerprint h (components replaced, or the disk moved to another
\* machine) while the installer is not running.
replace_hardware(h) ==
    /\ host.installer = "closed"
    /\ h # host.hardware
    /\ host' = [host EXCEPT !.hardware = h]
    /\ UNCHANGED <<customers, machines, now, resp, act, derivation, manager>>

\* ------------------------------------------------- fingerprint derivation
\* generate_hardware_fingerprint over the tokens of the probes that
\* succeeded: with fewer than three tokens a random token rnd is added;
\* the set of tokens stands for the SHA3-512 digest of their sorted join.
generate_hardware_fingerprint(components, rnd) ==
    IF Cardinality(components) < 3 THEN components \cup {rnd} ELSE components

\* A derivation returns the digest of its tokens or raises.
Digest(components) == [raised |-> FALSE, components |-> components]
Raised == [raised |-> TRUE, components |-> {}]

\* The tokens generate_hardware_fingerprint collects on platform system
\* when the probes ok succeed: the three platform calls are guarded one by
\* one, the platform-specific probes are skipped when they fail.
ValidatorComponents(system, ok) ==
    ({"hostname", "system", "machine"} \cap ok)
        \cup (IF system = "Windows" THEN {"machine_guid", "cpu"} \cap ok
              ELSE IF system = "Linux" THEN {"machine_id"} \cap ok
              ELSE {})

\* generate_hardware_fingerprint as a whole: platform.system() is called
\* again, unguarded, to choose the platform branch.
ValidatorFingerprint(system, ok, rnd) ==
    IF "system" \notin ok THEN Raised
    ELSE Digest(generate_hardware_fingerprint(ValidatorComponents(system, ok), rnd))

\* The tokens MachineFingerprint._generate_fingerprint collects: every
\* platform but Windows reads /etc/machine-id.
InstallerComponents(system, ok) ==
    {"hostname", "system", "machine"}
        \cup (IF system = "Windows" THEN {"machine_guid", "cpu"} \cap ok
              ELSE {"machine_id"} \cap ok)

\* MachineFingerprint._generate_fingerprint: the three platform calls are
\* not guarded.
MachineFingerprint_generate_fingerprint(system, ok, rnd) ==
    IF ~({"hostname", "system", "machine"} \subseteq ok) THEN Raised
    ELSE IF Cardinality(InstallerComponents(system, ok)) < 3
    THEN Digest(InstallerComponents(system, ok) \cup {rnd})
    ELSE Digest(InstallerComponents(system, ok))

\* One call of generate_hardware_fingerprint on the host; uuid4 yields rnd.
derive_fingerprint(rnd) ==
    /\ Len(derivation.results) < MaxInvocations
    /\ derivation' = [derivation EXCEPT
           !.results = Append(@, ValidatorFingerprint(derivation.system, derivation.probes, rnd))]
    /\ UNCHANGED <<customers, machines, now, resp, act, host, manager>>

\* One call of MachineFingerprint._generate_fingerprint on the same host.
installer_derive_fingerprint(rnd) ==
    /\ Len(derivation.installed) < MaxInvocations
    /\ derivation' = [derivation EXCEPT
           !.installed = Append(@, MachineFingerprint_generate_fingerprint(
                                       derivation.system, derivation.probes, rnd))]
    /\ UNCHANGED <<customers, machines, now, resp, act, host, manager>>

DerivationInputs ==
    {[system |-> sys, probes |-> P, pinned |-> b, results |-> <<>>, installed |-> <<>>] :
        sys \in Platforms, P \in SUBSET Probes, b \in BOOLEAN}

\* ------------------------------------------------------ legacy client
\* _derive_key: PBKDF2-HMAC-SHA256 of the fingerprint with a fixed salt.
derive_key(fingerprint) == <<"pbkdf2", fingerprint>>

\* _encrypt / _decrypt: AES-256-GCM; decrypting with another key fails the
\* tag check and raises.
encrypt(data, key) == [key |-> key, data |-> data]

decrypt_NoTagCheck(encrypted_data, key) == encrypted_data.data

decrypt(encrypted_data, key) ==
    IF encrypted_data.key = key THEN encrypted_data.data ELSE [raised |-> "InvalidTag"]

\* CertificateManager.save_certificate: the certificate as JSON,
\* encrypted under the key derived from machine_fingerprint; public_key.pem
\* is written only when a key is passed ("" is None).
CertificateManager_save_certificate(certificate, machine_fingerprint, public_key_pem) ==
    /\ manager' = [manager EXCEPT
                      !.cert_file = encrypt([json |-> certificate], derive_key(machine_fingerprint)),
                      !.saved_certificate = certificate,
                      !.saved_fingerprint = machine_fingerprint,
                      !.public_key = IF public_key_pem # "" THEN public_key_pem ELSE @]
    /\ UNCHANGED <<customers, machines, now, resp, act, host, derivation>>

\* CertificateManager.load_certificate: None (NoCert) when the file is
\* absent or does not decrypt.
LoadedCertificate(machine_fingerprint) ==
    IF manager.cert_file = NoFile THEN NoCert
    ELSE IF decrypt(manager.cert_file, derive_key(machine_fingerprint)) = [raised |-> "InvalidTag"]
    THEN NoCert
    ELSE decrypt(manager.cert_file, derive_key(machine_fingerprint)).json

CertificateManager_load_certificate(machine_fingerprint) ==
    /\ manager' = [manager EXCEPT !.loaded = LoadedCertificate(machine_fingerprint)]
    /\ UNCHANGED <<customers, machines, now, resp, act, host, derivation>>

\* CertificateManager.load_public_key: the text of public_key.pem, None
\* ("") when the file is absent.
load_public_key == manager.public_key

\* grace_days of LicenseValidator.__init__.
LegacyGraceDays == 7

\* The certificate layout LicenseValidator reads: machine_fingerprint,
\* hostname and valid_until at the top level.  What _verify_signature
\* serialises is the certificate with `signature` popped.
LegacyUnsigned(c) ==
    [hostname |-> c.hostname,
     machine_fingerprint |-> c.machine_fingerprint,
     has_valid_until |-> c.has_valid_until,
     valid_until |-> c.valid_until]

LegacyCertificate(fp, has, until, sig) ==
    [hostname |-> "TEST-PC", machine_fingerprint |-> fp,
     has_valid_until |-> has, valid_until |-> until, signature |-> sig]

\* A hex RSA-PSS/SHA-256 signature is modelled by the key that made it and
\* the content it was computed over; "abc123..." is the signature of nothing.
LegacySignature(key, content) == [key |-> key, content |-> content]

NoSignature == [key |-> "", content |-> <<>>]

\* Certificates of that layout a client may be handed: signed by the
\* Issuer's key, signed and then edited, or carrying a made-up signature.
LegacyCertificates ==
    UNION {{LegacyCertificate(fp, TRUE, until, LegacySignature("issuer",
                LegacyUnsigned(LegacyCertificate(fp, TRUE, until, NoSignature)))),
            LegacyCertificate(fp, TRUE, until, LegacySignature("issuer",
                LegacyUnsigned(LegacyCertificate(fp, TRUE, 0, NoSignature)))),
            LegacyCertificate(fp, FALSE, 0, NoSignature),
            LegacyCertificate(fp, TRUE, until, NoSignature)} :
        fp \in Fingerprints, until \in {TicksPerDay, MaxTime}}

\* public_key_pem arguments: None, or the key GET /api/v1/public-key returns.
PublicKeyInputs == {"", "issuer"}

\* certificate.get('machine_fingerprint') finds the top-level key only; the
\* Issuer's certificates keep it under `machine`.
HasTopLevelFingerprint(certificate) == "hostname" \in DOMAIN certificate

\* LicenseValidator._verify_signature: False when there is no signature or
\* when verification under the key raises.
LicenseValidator_verify_signature(certificate, public_key_pem) ==
    /\ certificate.signature.key = public_key_pem
    /\ certificate.signature.content = LegacyUnsigned(certificate)

\* LicenseValidator._check_expiry.
LicenseValidator_check_expiry(certificate) ==
    IF ~certificate.has_valid_until THEN "expired"
    ELSE IF now > certificate.valid_until
         THEN IF now <= certificate.valid_until + LegacyGraceDays * TicksPerDay
              THEN "grace_period" ELSE "expired"
    ELSE "valid"

ValidationResult(valid, reason) == [valid |-> valid, reason |-> reason]

\* LicenseValidator.validate on a machine whose get_machine_fingerprint()
\* returns machine_fingerprint.  A certificate without a top-level
\* machine_fingerprint takes the mismatch branch, whose print slices None
\* and raises TypeError.
LicenseValidatorResult(machine_fingerprint) ==
    LET certificate == LoadedCertificate(machine_fingerprint) IN
    IF manager.cert_file = NoFile THEN ValidationResult(FALSE, "not_activated")
    ELSE IF certificate = NoCert THEN ValidationResult(FALSE, "machine_mismatch")
    ELSE IF ~HasTopLevelFingerprint(certificate) THEN ValidationResult(FALSE, "TypeError")
    ELSE IF certificate.machine_fingerprint # machine_fingerprint
    THEN ValidationResult(FALSE, "fingerprint_mismatch")
    ELSE IF load_public_key # ""
            /\ ~LicenseValidator_verify_signature(certificate, load_public_key)
    THEN ValidationResult(FALSE, "invalid_signature")
    ELSE IF LicenseValidator_check_expiry(certificate) = "expired"
    THEN ValidationResult(FALSE, "expired")
    ELSE ValidationResult(TRUE, "valid")

LicenseValidator_validate(machine_fingerprint) ==
    /\ manager' = [manager EXCEPT !.result = LicenseValidatorResult(machine_fingerprint)]
    /\ UNCHANGED <<customers, machines, now, resp, act, host, derivation>>

\* ------------------------------------------------------------------- Next
\* The operations that write the store.
StoreOps ==
    \/ \E i \in CreateInputs : create_customer_endpoint(i[1], i[2], i[3], i[4])
    \/ \E k \in Keys, f \in Fingerprints : activate_machine(k, f)
    \/ \E f \in Fingerprints : revoke_machine_endpoint(f)
    \/ \E c \in CustIds : revoke_customer(c)
    \/ \E f \in Fingerprints, u \in UpgradeInputs :
           upgrade_certificate(f, u[1], u[2], u[3], u[4])
    \/ \E i \in CustomInputs : generate_custom_certificate(i[1], i[2], i[3], i[4], i[5])
    \/ \E c \in CustIds, u \in UpdateInputs : update_customer(c, u[1], u[2])

Next ==
    \/ StoreOps
    \/ \E f \in FingerprintInputs : heartbeat(f)

Spec == Init /\ [][Next]_vars

\* Validation against the clock: activation and revocation of machines,
\* validate, and the passing of time.
NextValidate ==
    \/ \E i \in CreateInputs : create_customer_endpoint(i[1], i[2], i[3], i[4])
    \/ \E k \in Keys, f \in Fingerprints : activate_machine(k, f)
    \/ \E f \in Fingerprints : revoke_machine_endpoint(f)
    \/ \E cert \in CertificateInputs, f \in FingerprintInputs, ck \in CheckInputs :
           validate_certificate(cert, f, ck[1], ck[2])
    \/ \E t \in ClockReadings : Advance(t)

SpecValidate == Init /\ [][NextValidate]_vars

NextStore == StoreOps
SpecStore == Init /\ [][NextStore]_vars

\* Upgrades against the clock: activation, custom generation saved to the
\* store, upgrade requests (UpgradeInputs, a downgrade to trial and a plain
\* extension by one day) and the passing of time.
UpgradeRequests == UpgradeInputs \cup {<<"trial", 0, 0, {}>>, <<"", 1, 0, {}>>}

NextUpgrade ==
    \/ \E i \in CreateInputs : create_customer_endpoint(i[1], i[2], i[3], i[4])
    \/ \E k \in Keys, f \in Fingerprints : activate_machine(k, f)
    \/ \E f \in Fingerprints, u \in UpgradeRequests :
           upgrade_certificate(f, u[1], u[2], u[3], u[4])
    \/ \E i \in {j \in CustomInputs : j[5]} :
           generate_custom_certificate(i[1], i[2], i[3], i[4], i[5])
    \/ \E t \in ClockReadings : Advance(t)

SpecUpgrade == Init /\ [][NextUpgrade]_vars

\* The Enforcer on its host, with the Issuer operations that decide what it
\* sees: activation for the pro customer, revocation of machines, and the
\* passing of time.
EnforcerCreateInputs == {i \in CreateInputs : i[2] = "pro"}
EnforcerKeys == {ProductKeyOf(i[1]) : i \in EnforcerCreateInputs}

NextEnforcer ==
    \/ \E i \in EnforcerCreateInputs : create_customer_endpoint(i[1], i[2], i[3], i[4])
    \/ \E k \in EnforcerKeys, f \in Fingerprints : activate_machine(k, f)
    \/ \E f \in Fingerprints : revoke_machine_endpoint(f)
    \/ \E t \in ClockReadings : Advance(t)
    \/ \E h \in Fingerprints, svc \in EnforcerServices : install_bundle(h, svc)
    \/ \E h \in Fingerprints, pin \in PinInputs : copy_bundle(h, pin)
    \/ \E c \in WrittenCertificates : write_certificate(c)
    \/ main
    \/ main_exit
    \/ \E net \in HeartbeatOutcomes : periodic_revalidation(net)

SpecEnforcer == Init /\ [][NextEnforcer]_vars

\* The same with the progress the code's scheduling gives: the main thread
\* goes on to run the startup check and to sys.exit(0), and the revalidation
\* thread, while it lives, wakes from its sleep for another pass, whose
\* heartbeat is answered (the Issuer is reachable).
SpecEnforcerFair ==
    /\ Init /\ [][NextEnforcer]_vars
    /\ WF_vars(main)
    /\ WF_vars(main_exit)
    /\ WF_vars(periodic_revalidation("answered"))

\* Concurrent activations (several worker processes on one store) and
\* machine revocations.
\* Revocation of customers against the two online checks.
NextRevocation ==
    \/ \E i \in CreateInputs : create_customer_endpoint(i[1], i[2], i[3], i[4])
    \/ \E k \in Keys, f \in Fingerprints : activate_machine(k, f)
    \/ \E f \in Fingerprints : revoke_machine_endpoint(f)
    \/ \E c \in CustIds : revoke_customer(c)
    \/ \E cert \in CertificateInputs, f \in FingerprintInputs, ck \in CheckInputs :
           validate_certificate(cert, f, ck[1], ck[2])
    \/ \E f \in FingerprintInputs : heartbeat(f)

SpecRevocation == Init /\ [][NextRevocation]_vars

\* The installer on its host, with the Issuer's customers and upgrades.
NextInstaller ==
    \/ \E i \in CreateInputs : create_customer_endpoint(i[1], i[2], i[3], i[4])
    \/ \E f \in Fingerprints, u \in UpgradeInputs :
           upgrade_certificate(f, u[1], u[2], u[3], u[4])
    \/ SetupWizard_init
    \/ do_activation
    \/ \E k \in Keys : ActivationClient_activate(k)
    \/ FileManager_save_certificate
    \/ FileManager_save_docker_credentials
    \/ FileManager_save_compose_file
    \/ FileManager_save_public_key
    \/ do_activation_except
    \/ close_installer
    \/ \E h \in Fingerprints : replace_hardware(h)

SpecInstaller == Init /\ [][NextInstaller]_vars

\* Fingerprint derivations: the probe outcomes and the presence of
\* machine_id.json are drawn at the start, then the derivation is called.
InitFingerprint ==
    /\ customers = [c \in CustIds |-> NoCustomer]
    /\ machines = [f \in Fingerprints |-> NoMachine]
    /\ now = 0
    /\ resp = Response("none", "", "", 0, FALSE, "", NoCert, 0)
    /\ act = [p \in Procs |-> NoAct]
    /\ host = NoHost
    /\ derivation \in DerivationInputs
    /\ manager = NoManager

NextFingerprint ==
    \/ \E rnd \in RandomTokens : derive_fingerprint(rnd)
    \/ \E rnd \in RandomTokens : installer_derive_fingerprint(rnd)

SpecFingerprint == InitFingerprint /\ [][NextFingerprint]_vars

\* The legacy client's certificate store, with the certificates the Issuer
\* returns on activation.
NextClient ==
    \/ \E i \in EnforcerCreateInputs : create_customer_endpoint(i[1], i[2], i[3], i[4])
    \/ \E k \in EnforcerKeys, f \in Fingerprints : activate_machine(k, f)
    \/ \E t \in ClockReadings : Advance(t)
    \/ \E c \in IssuedCertificates, f \in Fingerprints :
           \E pk \in PublicKeyInputs : CertificateManager_save_certificate(c, f, pk)
    \/ \E f \in Fingerprints : CertificateManager_load_certificate(f)

SpecClient == Init /\ [][NextClient]_vars

\* The legacy client's validator over the certificates of its own layout.
NextLegacyClient ==
    \/ \E t \in ClockReadings : Advance(t)
    \/ \E c \in LegacyCertificates, f \in Fingerprints :
           \E pk \in PublicKeyInputs : CertificateManager_save_certificate(c, f, pk)
    \/ \E f \in Fingerprints : CertificateManager_load_certificate(f)
    \/ \E f \in Fingerprints : LicenseValidator_validate(f)

SpecLegacyClient == Init /\ [][NextLegacyClient]_vars

NextConc ==
    \/ \E i \in CreateInputs : create_customer_endpoint(i[1], i[2], i[3], i[4])
    \/ \E p \in Procs, k \in Keys, f \in Fingerprints : activate_count(p, k, f)
    \/ \E p \in Procs : activate_insert(p)
    \/ \E f \in Fingerprints : revoke_machine_endpoint(f)

SpecConc == Init /\ [][NextConc]_vars

\* ================================================================= claims

\* C1: at every instant every customer's number of active machines is at
\* most its machine_limit, under any interleaving of concurrent activations
\* (count and insert being separate store steps) and revocations.
C1_QuotaNeverExceeded ==
    \A c \in CustIds :
        customers[c].exists => count_active_machines(c) <= customers[c].machine_limit

\* The active machines of customer c, as the claims count them.
ActiveMachinesOf(c) ==
    {f \in Fingerprints :
        machines[f].exists /\ machines[f].customer_id = c /\ machines[f].status = "active"}

\* The customer a product key belongs to ({} for the key of no customer).
OwnersOf(k) == {c \in CustIds : customers[c].exists /\ customers[c].product_key = k}

\* C2: an activate(K, F) that directly follows a successful activate(K, F)
\* succeeds again, returns the certificate id of the first call and leaves
\* the customer's number of active machines unchanged.
C2_ReactivationIdempotent ==
    [][\A k \in Keys, f \in Fingerprints :
          (/\ resp.op = "activate" /\ resp.status = 200
           /\ resp.key = k /\ resp.fp = f
           /\ activate_machine(k, f))
          => /\ resp'.status = 200
             /\ resp'.certificate.certificate_id = resp.certificate.certificate_id
             /\ \A c \in CustIds : ActiveMachinesOf(c)' = ActiveMachinesOf(c)]_vars

\* C3: the customer a machine row is bound to never changes, and an
\* activate that targets the fingerprint of an existing row with another
\* product key than its owner's is refused: it is not answered with success,
\* returns no certificate and leaves every machine row as it was.
C3_BindingStable ==
    [][/\ \A f \in Fingerprints :
              machines[f].exists =>
                  /\ machines'[f].exists
                  /\ machines'[f].customer_id = machines[f].customer_id
       /\ \A k \in Keys, f \in Fingerprints :
              (/\ machines[f].exists
               /\ k # customers[machines[f].customer_id].product_key
               /\ resp'.op = "activate" /\ resp'.key = k /\ resp'.fp = f
               /\ activate_machine(k, f))
              => /\ resp'.status # 200
                 /\ resp'.certificate = NoCert
                 /\ machines' = machines]_vars

C3_Witness ==
    /\ resp.op = "activate" /\ resp.status = 500
    /\ machines[resp.fp].exists
    /\ resp.key # customers[machines[resp.fp].customer_id].product_key

\* C4: an activate with the key KB of an existing, non-revoked customer for
\* a fingerprint bound under another key is answered 403,
\* different_product_key.  (A refused activate leaves the store as it was,
\* so the row it met is the row of the state it leaves.)
C4_DifferentKeyRefused403 ==
    (/\ resp.op = "activate"
     /\ machines[resp.fp].exists
     /\ \E c \in OwnersOf(resp.key) :
            ~customers[c].revoked /\ machines[resp.fp].customer_id # c)
    => (resp.status = 403 /\ resp.reason = "different_product_key")

C7_ValidOnlyForActiveMachine ==
    \A cert \in CertificateInputs, f \in FingerprintInputs, ck \in CheckInputs :
        ValidateResult(cert, f, ck[1], ck[2]).valid
            => (f \in Fingerprints /\ machines[f].exists /\ machines[f].status = "active")

C7_Witness ==
    /\ resp.op = "validate" /\ ~resp.valid /\ resp.reason = "revoked"
    /\ machines[resp.fp].status = "revoked"
    /\ now > 0

\* The verdict C8 describes for a fingerprint f.
C8_Expected(f) ==
    IF ~(f \in Fingerprints /\ machines[f].exists) THEN <<FALSE, "machine_not_found">>
    ELSE IF machines[f].status # "active" THEN <<FALSE, "machine_revoked">>
    ELSE IF customers[machines[f].customer_id].revoked THEN <<FALSE, "customer_revoked">>
    ELSE <<TRUE, "ok">>

C9_RevocationSticky ==
    [][/\ \A f \in Fingerprints :
              (machines[f].exists /\ machines[f].status = "revoked")
                  => machines'[f].status = "revoked"
       /\ \A c \in CustIds :
              (customers[c].exists /\ customers[c].revoked) => customers'[c].revoked]_vars

\* C10: the signature of every certificate the Issuer stored or returned
\* verifies over the certificate without signature and signature_timestamp.
C10_MintedCertificatesVerify ==
    \A c \in IssuedCertificates : VerifySignature(c)

\* C11: a successful upgrade of a machine that directly follows the
\* successful activation or upgrade of the same machine (whose certificate
\* is then the one most recently issued for it) links to that certificate
\* and counts one upgrade more.
C11_UpgradeChain ==
    [][\A f \in Fingerprints, u \in UpgradeInputs :
          (/\ resp.op \in {"activate", "upgrade"} /\ resp.status = 200 /\ resp.fp = f
           /\ upgrade_certificate(f, u[1], u[2], u[3], u[4])
           /\ resp'.status = 200)
          => /\ resp'.certificate.parent_certificate_id = resp.certificate.certificate_id
             /\ resp'.certificate.upgrade_count = resp.certificate.upgrade_count + 1]_vars

\* C12: after a successful upgrade for a fingerprint the certificate stored
\* in its machine row is the certificate the upgrade returned.
C12_UpgradeReplacesStoredCertificate ==
    (resp.op = "upgrade" /\ resp.status = 200)
        => machines[resp.fp].certificate = resp.certificate

\* C13: a successful upgrade with additional_days = d > 0 yields a
\* certificate valid until d days after the valid-until of the certificate
\* it upgrades, at whatever time the upgrade is performed.
C13_UpgradeAddsDaysToValidUntil ==
    [][\A f \in Fingerprints, u \in UpgradeRequests :
          (/\ machines[f].exists /\ u[2] # 0
           /\ upgrade_certificate(f, u[1], u[2], u[3], u[4])
           /\ resp'.status = 200)
          => resp'.certificate.valid_until
                 = machines[f].certificate.valid_until + u[2] * TicksPerDay]_vars

\* C14: the services enabled in the certificate of a successful upgrade are
\* those enabled in the certificate it upgrades together with the additional
\* services requested, also when none is requested.
C14_UpgradeServicesAreUnion ==
    [][\A f \in Fingerprints, u \in UpgradeRequests :
          (/\ machines[f].exists
           /\ upgrade_certificate(f, u[1], u[2], u[3], u[4])
           /\ resp'.status = 200)
          => resp'.certificate.enabled = machines[f].certificate.enabled \cup u[4]]_vars

\* The fingerprints of active machines; their stored certificates are the
\* ones activate minted (under SpecValidate nothing else writes them).
ActiveFingerprints ==
    {f \in Fingerprints : machines[f].exists /\ machines[f].status = "active"}

\* The service names validate requests carry.
RequestedServices == {ck[1] : ck \in CheckInputs} \ {""}

\* C15: for an active machine and its unexpired activation certificate,
\* validate with a service name answers valid, ok iff the certificate's
\* docker service map has that service enabled.
C15_ServiceCheckUsesDockerMap ==
    \A f \in ActiveFingerprints, s \in RequestedServices :
        LET c == machines[f].certificate
            r == ValidateResult(c, f, s, <<>>)
        IN  now < c.valid_until => ((r.valid /\ r.reason = "ok") <=> s \in c.enabled)

\* C16: for an active machine and its certificate, validate without service
\* or image answers ok (valid) before valid_until, grace_period (valid)
\* after valid_until and before the end of the grace period, and expired
\* (invalid) after the end of the grace period.
C16_ExpiryVerdicts ==
    \A f \in ActiveFingerprints :
        LET c == machines[f].certificate
            r == ValidateResult(c, f, "", <<>>)
            grace_end == c.valid_until + GraceDays * TicksPerDay
        IN  /\ now < c.valid_until => (r.valid /\ r.reason = "ok")
            /\ (c.valid_until < now /\ now < grace_end)
                   => (r.valid /\ r.reason = "grace_period")
            /\ now > grace_end => (~r.valid /\ r.reason = "expired")

\* validate has answered expired for an active machine whose certificate
\* was valid when issued.
C16_Witness ==
    /\ resp.op = "validate" /\ resp.key = "" /\ resp.reason = "expired"
    /\ resp.fp \in ActiveFingerprints
    /\ now > machines[resp.fp].certificate.valid_until + GraceDays * TicksPerDay
    /\ machines[resp.fp].certificate.issued_at < machines[resp.fp].certificate.valid_until

\* C17: for an active machine and its certificate, not expired beyond grace,
\* validate with a service name the certificate does not know answers
\* invalid, service_not_allowed, inside the grace window too.
C17_UnknownServiceRefused ==
    \A f \in ActiveFingerprints, s \in RequestedServices \ (PermissionNames \cup ServiceNames) :
        LET c == machines[f].certificate
            r == ValidateResult(c, f, s, <<>>)
        IN  now <= c.valid_until + GraceDays * TicksPerDay
                => (~r.valid /\ r.reason = "service_not_allowed")

\* C18: the startup check lets the Enforcer run only if the certificate's
\* fingerprint is the one computed from the hardware and, when machine_id.json
\* exists, the pin is that fingerprint too; on a host whose fingerprint
\* differs from the certificate's it ends INVALID with reason
\* fingerprint_mismatch.
C18_StartupBindsToHardware ==
    [][main =>
          /\ host'.state = "RUNNING" =>
                 /\ host.certificate.machine_fingerprint = host.hardware
                 /\ host.pin # "none" => host.pin = host.hardware
          /\ host.certificate.machine_fingerprint # host.hardware =>
                 /\ host'.state = "INVALID"
                 /\ host'.reason = "fingerprint_mismatch"]_vars

\* C19: the Enforcer runs only if its service is enabled in the docker
\* service map of its certificate.
C19_RunningServiceIsEnabled ==
    host.state = "RUNNING" => host.service \in host.certificate.enabled

\* The clock is inside the grace window of the host's certificate.
InGraceWindow ==
    /\ host.certificate # NoCert
    /\ host.certificate.valid_until < now
    /\ now < host.certificate.valid_until + GraceDays * TicksPerDay

LicenseInvalid ==
    \/ machines[host.hardware].exists /\ machines[host.hardware].status = "revoked"
    \/ now > host.certificate.valid_until + GraceDays * TicksPerDay

\* C22: when the license of a running Enforcer is invalid (machine revoked
\* at a reachable Issuer, or certificate expired beyond grace), the Enforcer
\* eventually stops running the protected services.
C22_InvalidLicenseEventuallyTerminates ==
    (host.state = "RUNNING" /\ LicenseInvalid) ~> (host.state # "RUNNING")

C24_InstallerRecomputesFingerprint ==
    [][(do_activation /\ host.pin # "none")
       => host'.fingerprint = generate_fingerprint]_vars

C26_NoPartialBundle ==
    is_activated => BundleFiles \subseteq host.files

\* C27: derivations over the same probe outcomes return the same
\* fingerprint, whenever three tokens are collected or machine_id.json
\* exists (no random token may be drawn then).
C27_DerivationDeterministic ==
    (\/ derivation.pinned
     \/ Cardinality(ValidatorComponents(derivation.system, derivation.probes)) >= 3)
    => \A i, j \in DOMAIN derivation.results :
           derivation.results[i] = derivation.results[j]

ValidationReasons ==
    {"ok", "not_activated", "certificate_corrupt", "machine_id_missing",
     "fingerprint_mismatch", "cert_fingerprint_missing", "invalid_signature",
     "hmac_mismatch", "expired", "grace_period", "no_expiry_date",
     "service_not_allowed", "docker_image_not_allowed", "revoked"}

\* C28: every answer of validate is HTTP 200 and carries a reason code of
\* the listed set.
C28_ValidateReasonInClosedSet ==
    resp.op = "validate" => (resp.status = 200 /\ resp.reason \in ValidationReasons)

\* C30: validate answers valid only for the certificate the Issuer holds for
\* the machine, with a signature that verifies.
C30_ValidOnlyForStoredCertificate ==
    [][\A cert \in CertificateInputs, f \in FingerprintInputs, ck \in CheckInputs :
          (validate_certificate(cert, f, ck[1], ck[2]) /\ resp'.valid)
          => /\ get_machine_by_fingerprint(f).exists
             /\ cert = get_machine_by_fingerprint(f).certificate
             /\ VerifySignature(cert)]_vars

\* C31: an activate for a fingerprint whose machine row is revoked is never
\* answered with success, carries no certificate and leaves the rows as
\* they were, under every product key.
C31_NoActivationOfRevokedMachine ==
    [][\A k \in Keys, f \in Fingerprints :
          (/\ machines[f].exists
           /\ machines[f].status = "revoked"
           /\ resp'.op = "activate" /\ resp'.key = k /\ resp'.fp = f
           /\ activate_machine(k, f))
          => /\ resp'.status # 200
             /\ resp'.certificate = NoCert
             /\ machines' = machines]_vars

\* An activate that passed the key, revocation and quota checks met the
\* revoked row of its fingerprint.
C31_Witness ==
    /\ resp.op = "activate" /\ resp.reason = "integrity_error"
    /\ machines[resp.fp].status = "revoked"

\* C32: an upgrade for a machine that is revoked, or whose customer is
\* revoked, is not answered with success and returns no certificate.
C32_NoUpgradeOfRevoked ==
    [][\A f \in Fingerprints, u \in UpgradeInputs :
          (/\ machines[f].exists
           /\ \/ machines[f].status = "revoked"
              \/ customers[machines[f].customer_id].revoked
           /\ resp'.op = "upgrade" /\ resp'.fp = f
           /\ upgrade_certificate(f, u[1], u[2], u[3], u[4]))
          => /\ resp'.status # 200
             /\ resp'.certificate = NoCert]_vars

\* C33: once the customer of a machine is revoked, validate answers
\* valid = false for that machine.
C33_ValidateRefusesRevokedCustomer ==
    [][\A cert \in CertificateInputs, f \in Fingerprints, ck \in CheckInputs :
          (/\ machines[f].exists
           /\ customers[machines[f].customer_id].revoked
           /\ validate_certificate(cert, f, ck[1], ck[2]))
          => ~resp'.valid]_vars

\* C34: custom generation saved to the store registers no new machine for
\* a customer that is revoked or whose active machines already number its
\* machine_limit.
C34_CustomGenerationRespectsQuota ==
    [][\A i \in CustomInputs :
          (/\ customers[i[1]].exists
           /\ \/ customers[i[1]].revoked
              \/ count_active_machines(i[1]) >= customers[i[1]].machine_limit
           /\ resp'.op = "custom" /\ resp'.fp = i[2]
           /\ generate_custom_certificate(i[1], i[2], i[3], i[4], i[5]))
          => (machines'[i[2]].exists => machines[i[2]].exists)]_vars

\* C36: the certificate stored with a machine row names the row's
\* fingerprint and the row's customer.
C36_StoredCertificateMatchesRow ==
    \A f \in Fingerprints :
        machines[f].exists =>
            /\ machines[f].certificate.machine_fingerprint = f
            /\ machines[f].certificate.customer_id = machines[f].customer_id

\* C35: the startup check, with the Issuer reachable, does not find the
\* license valid for a machine whose heartbeat verdict is machine_revoked
\* or customer_revoked.
C35_StartupRefusesRevokedMachine ==
    [][(/\ main
        /\ HeartbeatResult(host.hardware).reason \in {"machine_revoked", "customer_revoked"})
       => host'.state # "RUNNING"]_vars

\* C37: after a successful upgrade with new_machine_limit = N the
\* machine_limit activate checks for the machine's customer is N.
C37_UpgradeSetsEnforcedLimit ==
    [][\A f \in Fingerprints, u \in UpgradeRequests :
          (/\ u[3] # 0
           /\ machines[f].exists
           /\ resp'.op = "upgrade" /\ resp'.fp = f /\ resp'.status = 200
           /\ upgrade_certificate(f, u[1], u[2], u[3], u[4]))
          => customers'[machines[f].customer_id].machine_limit = u[3]]_vars

\* C38: a successful upgrade without additional days yields a certificate
\* whose valid_until is not later than that of the certificate it upgrades.
C38_UpgradeWithoutDaysNeverExtends ==
    [][\A f \in Fingerprints, u \in UpgradeRequests :
          (/\ machines[f].exists /\ u[2] = 0
           /\ resp'.op = "upgrade" /\ resp'.fp = f /\ resp'.status = 200
           /\ upgrade_certificate(f, u[1], u[2], u[3], u[4]))
          => resp'.certificate.valid_until <= machines[f].certificate.valid_until]_vars

\* C39: on the same host (same platform, same probe outcomes) the
\* validator's and the installer's derivation return the same fingerprint.
\* (Stated for hosts whose hostname, system and machine calls succeed, where
\* neither derivation raises or draws a random token.)
C39_ValidatorMatchesInstaller ==
    {"hostname", "system", "machine"} \subseteq derivation.probes
    => \A i \in DOMAIN derivation.results, j \in DOMAIN derivation.installed :
           derivation.results[i] = derivation.installed[j]

\* C40: LicenseValidator.validate answers valid only when the signature of
\* the certificate was verified under the public key in public_key.pem; with
\* no public key stored it never answers valid.
C40_ValidOnlyWithVerifiedSignature ==
    [][\A f \in Fingerprints :
          (LicenseValidator_validate(f) /\ manager'.result.valid)
          => /\ load_public_key # ""
             /\ LicenseValidator_verify_signature(LoadedCertificate(f), load_public_key)]_vars

====
